---- MODULE Spec2Model ----
(***************************************************************************)
(* FocusFlow progression economy: activity ingestion (XP, level, badges,   *)
(* goal penalties and bonuses, chest-credit accrual) and the loot economy  *)
(* (open chest, item decay, repair), for one user; goal progress with     *)
(* titled goals, ingestions that fail, and two ingestions in two threads.  *)
(*                                                                         *)
(* Numbers: durations are minutes (0 stands for an absent duration, which  *)
(* the code replaces by 30 through "duration_minutes or 30"); a            *)
(* productivity score is held in hundredths, the precision round(score, 2) *)
(* leaves; goal targets are hours and are compared in minutes (60*target). *)
(***************************************************************************)
EXTENDS Integers, Naturals, Sequences, FiniteSets, Bags, TLC

VARIABLES
    today,                  \* datetime.utcnow().date() as a day number, weekday = today % 7
    xp,                     \* users.xp
    level,                  \* users.level
    chest_credits,          \* users.chest_credits
    productive_minutes,     \* users.productive_minutes
    today_gaming_minutes,   \* users.today_gaming_minutes
    last_gaming_reset,      \* users.last_gaming_reset as a day number
    activities,             \* activity_logs rows of the user, a bag of records
    goals,                  \* goals rows of the user, in query order
    user_badges,            \* user_badges rows of the user: badge name -> number of rows
    items,                  \* items rows (the catalog), a set of item names
    user_items,             \* user_items rows of the user: item name -> [count, is_broken]
    other_user_items,       \* user_items rows of another user: row id -> [count, is_broken]
    requests,               \* requests in flight: request -> its position and session
    result                  \* the response of the last request

vars == <<today, xp, level, chest_credits, productive_minutes, today_gaming_minutes,
          last_gaming_reset, activities, goals, user_badges, items, user_items,
          other_user_items, requests, result>>

----------------------------------------------------------------------------
(* Bounds of the model *)

MaxActivities == 3          \* number of ingested activities
MaxDay == 6                 \* last day the clock reaches
MaxOwned == 2               \* number of items the user comes to own, with multiplicity
MaxGamingMinutes == 61      \* largest value of the distraction-minutes counter
MaxXp == 650                \* largest XP a level is asked for
MaxScoreDuration == 245     \* longest duration a score is computed for

(* Program constants *)

SATURDAY == 5               \* datetime.weekday() of a Saturday
DEFAULT_DURATION == 30
DURATION_CAP_MINUTES == 240
KEY_MINUTES == 120
REPAIR_COST == 5
ELIGIBLE_MINUTES == 120     \* "productive_hours >= 2.0" in minutes
FIRST_BREACH_PENALTY == 50
CONTINUED_PENALTY == 10
COMPLETION_BONUS == 25
DAILY_GAMING_ALLOWANCE == 60
WEEKEND_MINUTES == 300
CENTURION_COUNT == 100
FOCUS_COUNT == 10
CAREER_MINUTES == 3000
HEALTH_MINUTES == 1800
SOCIAL_MINUTES == 1200

StartDay == SATURDAY
GamingStart == DAILY_GAMING_ALLOWANCE

None == "None"
NoHour == 0 - 1             \* local_hour is None

Categories == {"Career", "Health", "Leisure", "Chores", "Social"}

\* nlp_parser.BASE_SCORES, with BASE_SCORES.get(category, 0)
BASE_SCORES(category) ==
    CASE category = "Career" -> 10
      [] category = "Health" -> 8
      [] category = "Social" -> 5
      [] category = "Chores" -> 4
      [] category = "Leisure" -> 0 - 5
      [] OTHER -> 0

\* "duration_minutes or 30": None and 0 are both falsy
DurationOr30(duration_minutes) ==
    IF duration_minutes = 0 THEN DEFAULT_DURATION ELSE duration_minutes

Min(a, b) == IF a <= b THEN a ELSE b
Max(a, b) == IF a >= b THEN a ELSE b

\* round-to-nearest of num/den for den > 0 (no tie occurs for the scores below)
RoundDiv(num, den) ==
    IF num >= 0 THEN (2 * num + den) \div (2 * den)
    ELSE 0 - ((2 * (0 - num) + den) \div (2 * den))

\* a mutant of calculate_weighted_score: the score is rounded to a whole number
calculate_weighted_score_whole(category, duration_minutes, is_focus_session) ==
    LET capped == Min(DurationOr30(duration_minutes), DURATION_CAP_MINUTES)
        focus  == is_focus_session /\ category \in {"Career", "Health"}
    IN  IF focus
        THEN 100 * RoundDiv(BASE_SCORES(category) * capped * 12, 60 * 10)
        ELSE 100 * RoundDiv(BASE_SCORES(category) * capped, 60)

\* nlp_parser.calculate_weighted_score, in hundredths:
\* base * min(minutes/60, 4) * (1.2 if focus and category in {Career, Health}), round(_, 2)
calculate_weighted_score(category, duration_minutes, is_focus_session) ==
    LET capped == Min(DurationOr30(duration_minutes), DURATION_CAP_MINUTES)
        focus  == is_focus_session /\ category \in {"Career", "Health"}
    IN  IF focus
        THEN RoundDiv(BASE_SCORES(category) * capped * 100 * 12, 60 * 10)
        ELSE RoundDiv(BASE_SCORES(category) * capped * 100, 60)

\* gamification.calculate_xp_gain on a score in hundredths: max(1, int(score / 10))
calculate_xp_gain(productivity_score) ==
    IF productivity_score <= 0 THEN 0
    ELSE Max(1, productivity_score \div 1000)

\* int(sqrt(x) * 0.2): the largest k with 25 k^2 <= x
RECURSIVE SqrtFifth(_, _)
SqrtFifth(x, k) ==
    IF 25 * (k + 1) * (k + 1) <= x THEN SqrtFifth(x, k + 1) ELSE k

\* gamification.calculate_level
calculate_level(x) ==
    IF x <= 0 THEN 1 ELSE SqrtFifth(x, 0) + 1

\* a mutant of xp_for_level: the float square comes out just below the integer and
\* int() truncates it
xp_for_level_truncated(lvl) ==
    IF lvl <= 1 THEN 0 ELSE 25 * (lvl - 1) * (lvl - 1) - 1

\* gamification.xp_for_level: int(((level - 1) / 0.2) ** 2)
xp_for_level(lvl) ==
    IF lvl <= 1 THEN 0 ELSE 25 * (lvl - 1) * (lvl - 1)

\* gamification.get_level_progress, progress_percent in tenths of a percent
get_level_progress(user_xp) ==
    LET current_level    == calculate_level(user_xp)
        current_level_xp == xp_for_level(current_level)
        next_level_xp    == xp_for_level(current_level + 1)
        xp_in_level      == user_xp - current_level_xp
        xp_needed        == next_level_xp - current_level_xp
    IN  [level |-> current_level,
         xp |-> user_xp,
         xp_in_level |-> xp_in_level,
         xp_for_next_level |-> xp_needed,
         progress_percent |-> IF xp_needed > 0 THEN RoundDiv(xp_in_level * 1000, xp_needed)
                              ELSE 1000,
         next_level |-> current_level + 1]

\* a mutant of award_xp: the level computed from the new total is always stored
award_xp_store_any(user_xp, user_level, xp_amount) ==
    LET old_level  == user_level
        total_xp   == user_xp + xp_amount
        new_level  == calculate_level(total_xp)
    IN  [xp         |-> total_xp,
         level      |-> new_level,
         xp_awarded |-> xp_amount,
         total_xp   |-> total_xp,
         old_level  |-> old_level,
         new_level  |-> new_level,
         leveled_up |-> new_level > old_level]

\* gamification.award_xp: the level is stored only when it rises
award_xp(user_xp, user_level, xp_amount) ==
    LET old_level  == user_level
        total_xp   == user_xp + xp_amount
        new_level  == calculate_level(total_xp)
        leveled_up == new_level > old_level
    IN  [xp         |-> total_xp,
         level      |-> IF leveled_up THEN new_level ELSE user_level,
         xp_awarded |-> xp_amount,
         total_xp   |-> total_xp,
         old_level  |-> old_level,
         new_level  |-> new_level,
         leveled_up |-> leveled_up]

----------------------------------------------------------------------------
(* Sums over the activity rows *)

RECURSIVE SumRows(_, _)
\* sum of "duration_minutes or 30" over the rows of bag B that are in set S
SumRows(B, S) ==
    IF S = {} THEN 0
    ELSE LET a == CHOOSE r \in S : TRUE
         IN  CopiesIn(a, B) * DurationOr30(a.duration_minutes) + SumRows(B, S \ {a})

RECURSIVE CountRows(_, _)
\* number of rows of bag B that are in set S
CountRows(B, S) ==
    IF S = {} THEN 0
    ELSE LET a == CHOOSE r \in S : TRUE
         IN  CopiesIn(a, B) + CountRows(B, S \ {a})

Rows(B) == BagToSet(B)

----------------------------------------------------------------------------
(* Badge system *)

\* the keys of gamification.BADGE_CHECKS in iteration (insertion) order
BADGE_CHECKS ==
    <<"Night Owl", "Early Bird", "Weekend Warrior", "Iron Streak", "Centurion",
      "First Steps", "Focused Mind", "Career Champion", "Health Hero", "Social Butterfly">>

\* the badges rows: gamification.BADGE_DEFINITIONS as seeded
BADGE_DEFINITIONS == {BADGE_CHECKS[i] : i \in 1..Len(BADGE_CHECKS)}

\* hour = local_hour if local_hour is not None else activity.timestamp.hour
EffectiveHour(activity, local_hour) ==
    IF local_hour # NoHour THEN local_hour ELSE activity.hour

check_night_owl(activity, user_activities, local_hour) ==
    LET hour == EffectiveHour(activity, local_hour) IN hour >= 22 \/ hour < 4

check_early_bird(activity, user_activities, local_hour) ==
    EffectiveHour(activity, local_hour) < 7

check_weekend_warrior(activity, user_activities) ==
    IF (activity.day % 7) \notin {5, 6} THEN FALSE
    ELSE SumRows(user_activities,
                 {a \in Rows(user_activities) : a.day = activity.day}) >= WEEKEND_MINUTES

\* "today" is datetime.utcnow().date() at evaluation time
check_iron_streak(activity, user_activities, now) ==
    IF BagCardinality(user_activities) < 7 THEN FALSE
    ELSE \A i \in 0..6 : \E a \in Rows(user_activities) : a.day = now - i

\* a mutant of check_centurion: the hundredth activity does not count yet
check_centurion_over(activity, user_activities) ==
    BagCardinality(user_activities) > CENTURION_COUNT

check_centurion(activity, user_activities) ==
    BagCardinality(user_activities) >= CENTURION_COUNT

check_first_steps(activity, user_activities) ==
    BagCardinality(user_activities) = 1

check_focused_mind(activity, user_activities) ==
    CountRows(user_activities,
              {a \in Rows(user_activities) : a.is_focus_session}) >= FOCUS_COUNT

CategoryMinutes(user_activities, category) ==
    SumRows(user_activities, {a \in Rows(user_activities) : a.category = category})

check_career_champion(activity, user_activities) ==
    CategoryMinutes(user_activities, "Career") >= CAREER_MINUTES

check_health_hero(activity, user_activities) ==
    CategoryMinutes(user_activities, "Health") >= HEALTH_MINUTES

check_social_butterfly(activity, user_activities) ==
    CategoryMinutes(user_activities, "Social") >= SOCIAL_MINUTES

\* check_fn(activity, user_activities[, local_hour]) for the badge of that name
BadgeMet(badge_name, activity, user_activities, local_hour, now) ==
    CASE badge_name = "Night Owl"        -> check_night_owl(activity, user_activities, local_hour)
      [] badge_name = "Early Bird"       -> check_early_bird(activity, user_activities, local_hour)
      [] badge_name = "Weekend Warrior"  -> check_weekend_warrior(activity, user_activities)
      [] badge_name = "Iron Streak"      -> check_iron_streak(activity, user_activities, now)
      [] badge_name = "Centurion"        -> check_centurion(activity, user_activities)
      [] badge_name = "First Steps"      -> check_first_steps(activity, user_activities)
      [] badge_name = "Focused Mind"     -> check_focused_mind(activity, user_activities)
      [] badge_name = "Career Champion"  -> check_career_champion(activity, user_activities)
      [] badge_name = "Health Hero"      -> check_health_hero(activity, user_activities)
      [] badge_name = "Social Butterfly" -> check_social_butterfly(activity, user_activities)

\* a mutant of existing_badge_ids: the owned badges are not looked up
existing_badge_ids_none(badge_rows) == {}

\* existing_badge_ids = set(ub.badge_id for ub in user.badges)
existing_badge_ids(badge_rows) ==
    {b \in DOMAIN badge_rows : badge_rows[b] > 0}

\* a mutant of BadgeCheckRaised: the error ends the evaluation with what was matched so far
BadgeCheckAborts(newly_awarded, remaining) == newly_awarded

\* "except Exception: print(...); continue": the loop goes on with the remaining badges
BadgeCheckRaised(newly_awarded, remaining) == remaining

RECURSIVE BadgeLoop(_, _, _, _, _, _, _, _)
\* the for loop of check_and_award_badges from registry position i on;
\* raising is the set of badges whose check function raises in this evaluation
BadgeLoop(i, newly_awarded, existing, activity, user_activities, local_hour, now, raising) ==
    IF i > Len(BADGE_CHECKS) THEN newly_awarded
    ELSE LET badge_name == BADGE_CHECKS[i]
             continue   == BadgeLoop(i + 1, newly_awarded, existing, activity,
                                     user_activities, local_hour, now, raising)
         IN  IF badge_name \notin BADGE_DEFINITIONS THEN continue
             ELSE IF badge_name \in existing THEN continue
             ELSE IF badge_name \in raising
                  THEN BadgeCheckRaised(newly_awarded, continue)
             ELSE IF BadgeMet(badge_name, activity, user_activities, local_hour, now)
                  THEN BadgeLoop(i + 1, Append(newly_awarded, badge_name), existing, activity,
                                 user_activities, local_hour, now, raising)
             ELSE continue

\* gamification.check_and_award_badges: the list of newly awarded badges
check_and_award_badges(badge_rows, activity, user_activities, local_hour, now, raising) ==
    BadgeLoop(1, <<>>, existing_badge_ids(badge_rows), activity, user_activities,
              local_hour, now, raising)

SeqToSet(s) == {s[i] : i \in 1..Len(s)}

\* the badges for which "Error checking badge ..." is printed: the check functions
\* that were called (badge seeded and not yet owned) and raised
BadgeErrorsLogged(badge_rows, raising) ==
    {b \in raising : b \in BADGE_DEFINITIONS /\ b \notin existing_badge_ids(badge_rows)}

\* session.add(UserBadge(...)) for every newly awarded badge
AddUserBadges(badge_rows, newly_awarded) ==
    [b \in DOMAIN badge_rows |->
        badge_rows[b] + Cardinality({i \in 1..Len(newly_awarded) : newly_awarded[i] = b})]

----------------------------------------------------------------------------
(* Text: a Python str is a sequence of one-character strings *)

UPPERCASE ==
    <<"A", "B", "C", "D", "E", "F", "G", "H", "I", "J", "K", "L", "M",
      "N", "O", "P", "Q", "R", "S", "T", "U", "V", "W", "X", "Y", "Z">>
LOWERCASE ==
    <<"a", "b", "c", "d", "e", "f", "g", "h", "i", "j", "k", "l", "m",
      "n", "o", "p", "q", "r", "s", "t", "u", "v", "w", "x", "y", "z">>

\* str.lower()
Lower(text) ==
    [k \in 1..Len(text) |->
        IF \E i \in 1..Len(UPPERCASE) : UPPERCASE[i] = text[k]
        THEN LOWERCASE[CHOOSE i \in 1..Len(UPPERCASE) : UPPERCASE[i] = text[k]]
        ELSE text[k]]

\* str.startswith(prefix)
StartsWith(text, prefix) ==
    Len(prefix) <= Len(text) /\ SubSeq(text, 1, Len(prefix)) = prefix

\* "sub in text" for two str
Contains(text, sub) ==
    \E i \in 0..(Len(text) - Len(sub)) : SubSeq(text, i + 1, i + Len(sub)) = sub

RECURSIVE SplitWords(_, _, _)
\* str.split(): the maximal runs without a blank, in order
SplitWords(text, word, words) ==
    IF text = <<>>
    THEN IF word = <<>> THEN words ELSE Append(words, word)
    ELSE IF Head(text) = " "
         THEN SplitWords(Tail(text), <<>>, IF word = <<>> THEN words ELSE Append(words, word))
         ELSE SplitWords(Tail(text), Append(word, Head(text)), words)

Split(text) == SplitWords(text, <<>>, <<>>)

\* the directive words check_goal_status and get_goals strip from a title
TITLE_PREFIXES ==
    <<<<"l", "i", "m", "i", "t", " ">>,
      <<"r", "e", "d", "u", "c", "e", " ">>,
      <<"a", "v", "o", "i", "d", " ">>,
      <<"s", "t", "o", "p", " ">>,
      <<"l", "e", "s", "s", " ">>,
      <<"t", "a", "r", "g", "e", "t", " ">>,
      <<"a", "c", "h", "i", "e", "v", "e", " ">>>>

RECURSIVE StripPrefix(_, _)
\* the for loop over the prefixes from position i on: the first match is cut, once
StripPrefix(title_lower, i) ==
    IF i > Len(TITLE_PREFIXES) THEN title_lower
    ELSE IF StartsWith(title_lower, TITLE_PREFIXES[i])
         THEN SubSeq(title_lower, Len(TITLE_PREFIXES[i]) + 1, Len(title_lower))
         ELSE StripPrefix(title_lower, i + 1)

\* "len(word) > 3"
TitleWordLength == 3

\* the condition of the list comprehension that filters the category's activities
TitleMatches(title_lower, activity_name) ==
    LET name_lower == Lower(activity_name)
        words      == Split(title_lower)
    IN  \/ Contains(name_lower, title_lower)
        \/ Contains(title_lower, name_lower)
        \/ \E w \in 1..Len(words) :
              Len(words[w]) > TitleWordLength /\ Contains(name_lower, words[w])

----------------------------------------------------------------------------
(* Goal penalties and bonuses *)

\* goal.timeframe -> start_date
GoalStartDate(goal, now) ==
    CASE goal.timeframe = "daily"  -> now
      [] goal.timeframe = "weekly" -> now - (now % 7)
      [] OTHER                     -> 0          \* today.replace(day=1): day 0 is the 1st

\* the activities of check_goal_status and of get_goals for a goal: the category's
\* rows since the start date, filtered by the title when the goal has one (a title
\* of None or '' is falsy; both functions hold the same code)
GoalActivities(goal, user_activities, now) ==
    LET all_category_activities ==
            {a \in Rows(user_activities) :
                a.category = goal.category /\ a.day >= GoalStartDate(goal, now)}
    IN  IF goal.title # <<>>
        THEN {a \in all_category_activities :
                TitleMatches(StripPrefix(Lower(goal.title), 1), a.activity_name)}
        ELSE all_category_activities

\* total_minutes = sum(a.duration_minutes or 30 for a in activities)
GoalTotalMinutes(goal, user_activities, now) ==
    SumRows(user_activities, GoalActivities(goal, user_activities, now))

\* a mutant of ClampXp: the penalty is applied without the floor
NoClampXp(x) == x

\* user.xp = max(0, user.xp + penalty)
ClampXp(x) == Max(0, x)

\* prev_minutes = total_minutes - (activity.duration_minutes or 30)
PrevMinutes(total_minutes, activity) ==
    total_minutes - DurationOr30(activity.duration_minutes)

RECURSIVE GoalLoop(_, _, _, _, _, _, _)
\* the for loop of check_goal_status from goal position i on, with the running user.xp
GoalLoop(i, user_xp, penalties, bonuses, activity, user_activities, st) ==
    IF i > Len(st.goals) THEN [xp |-> user_xp, penalties |-> penalties, bonuses |-> bonuses]
    ELSE
      LET goal          == st.goals[i]
          total_minutes == GoalTotalMinutes(goal, user_activities, st.now)
          target        == 60 * goal.target_value
          prev_minutes  == PrevMinutes(total_minutes, activity)
          is_limit_goal == goal.goal_type = "limit"
      IN  IF is_limit_goal
          THEN IF total_minutes > target
               THEN IF prev_minutes <= target
                    THEN GoalLoop(i + 1, ClampXp(user_xp - FIRST_BREACH_PENALTY),
                                  Append(penalties, [goal |-> i, points |-> 0 - FIRST_BREACH_PENALTY,
                                                     reason |-> "Exceeded limit"]),
                                  bonuses, activity, user_activities, st)
                    ELSE GoalLoop(i + 1, ClampXp(user_xp - CONTINUED_PENALTY),
                                  Append(penalties, [goal |-> i, points |-> 0 - CONTINUED_PENALTY,
                                                     reason |-> "Continued over limit"]),
                                  bonuses, activity, user_activities, st)
               ELSE GoalLoop(i + 1, user_xp, penalties, bonuses, activity, user_activities, st)
          ELSE IF total_minutes >= target /\ prev_minutes < target
               THEN GoalLoop(i + 1, user_xp + COMPLETION_BONUS, penalties,
                             Append(bonuses, [goal |-> i, points |-> COMPLETION_BONUS,
                                              reason |-> "Goal completed!"]),
                             activity, user_activities, st)
               ELSE GoalLoop(i + 1, user_xp, penalties, bonuses, activity, user_activities, st)

\* a mutant of check_goal_status: the loop over the goals runs a second time
check_goal_status_twice(user_xp, goal_rows, activity, user_activities, now) ==
    LET first == GoalLoop(1, user_xp, <<>>, <<>>, activity, user_activities,
                          [goals |-> goal_rows, now |-> now])
    IN  GoalLoop(1, first.xp, first.penalties, first.bonuses, activity, user_activities,
                 [goals |-> goal_rows, now |-> now])

\* gamification.check_goal_status: user.xp afterwards and the reported lists
check_goal_status(user_xp, goal_rows, activity, user_activities, now) ==
    GoalLoop(1, user_xp, <<>>, <<>>, activity, user_activities,
             [goals |-> goal_rows, now |-> now])

----------------------------------------------------------------------------
(* Loot economy *)

RARITY_ORDER == <<"Common", "Rare", "Legendary", "Mythic">>

\* a mutant of RARITY_PRIORITY: the cheapest tier is broken first
RARITY_PRIORITY_CommonFirst == RARITY_ORDER

\* rarity_priority of check_item_decay
RARITY_PRIORITY == <<"Mythic", "Legendary", "Rare", "Common">>

\* gamification.ITEM_DEFINITIONS: the rarity of an item name
ItemRarity(item) ==
    CASE item \in {"Code Snippet", "Coffee Cup", "Bug Fix", "Terminal Line", "Git Commit",
                   "Keyboard Key", "Binary Fragment", "Power Cable"} -> "Common"
      [] item \in {"RAM Stick", "Hard Drive", "Database Shard", "Wifi Signal",
                   "Shield Protocol", "Circuit Board"} -> "Rare"
      [] item \in {"GPU Core", "Cloud Server", "Blockchain Node", "AI Model"} -> "Legendary"
      [] item \in {"Quantum Core", "The Singularity"} -> "Mythic"

\* contents of the items table the model starts from: not seeded, and seeded in
\* part (two Common items, one Rare, one Mythic, no Legendary item)
ItemCatalogs ==
    { {},
      {"Code Snippet", "Coffee Cup", "RAM Stick", "Quantum Core"} }

\* a mutant of AccrueCredits: the remainder is not kept, the counter restarts at the sum
AccrueCreditsNoMod(minutes, credits, productivity_score, duration_minutes) ==
    IF productivity_score > 0
    THEN LET added == minutes + DurationOr30(duration_minutes)
         IN  [productive_minutes |-> added,
              chest_credits      |-> credits + (added \div KEY_MINUTES),
              credits_earned     |-> added \div KEY_MINUTES]
    ELSE [productive_minutes |-> minutes, chest_credits |-> credits, credits_earned |-> 0]

\* a mutant of AccrueCredits: one key per ingestion, 120 minutes taken off the counter
AccrueCreditsOneKey(minutes, credits, productivity_score, duration_minutes) ==
    IF productivity_score > 0
    THEN LET added == minutes + DurationOr30(duration_minutes)
         IN  IF added >= KEY_MINUTES
             THEN [productive_minutes |-> added - KEY_MINUTES,
                   chest_credits      |-> credits + 1,
                   credits_earned     |-> 1]
             ELSE [productive_minutes |-> added, chest_credits |-> credits,
                   credits_earned |-> 0]
    ELSE [productive_minutes |-> minutes, chest_credits |-> credits, credits_earned |-> 0]

\* the credit accrual of log_activity
AccrueCredits(minutes, credits, productivity_score, duration_minutes) ==
    IF productivity_score > 0
    THEN LET added               == minutes + DurationOr30(duration_minutes)
             keys_from_threshold == added \div KEY_MINUTES
             remaining_minutes   == added % KEY_MINUTES
         IN  IF keys_from_threshold > 0
             THEN [productive_minutes |-> remaining_minutes,
                   chest_credits      |-> credits + keys_from_threshold,
                   credits_earned     |-> keys_from_threshold]
             ELSE [productive_minutes |-> added,
                   chest_credits      |-> credits,
                   credits_earned     |-> 0]
    ELSE [productive_minutes |-> minutes, chest_credits |-> credits, credits_earned |-> 0]

\* items of the drawn rarity, or any item when that tier is empty
ChestPool(catalog, rarity) ==
    LET of_rarity == {i \in catalog : ItemRarity(i) = rarity}
    IN  IF of_rarity = {} THEN catalog ELSE of_rarity

\* gamification.check_chest_eligibility: Career and Health minutes logged today
check_chest_eligibility(user_activities, now) ==
    LET productive_today ==
            SumRows(user_activities,
                    {a \in Rows(user_activities) :
                        a.day >= now /\ a.category \in {"Career", "Health"}})
    IN  [eligible |-> productive_today >= ELIGIBLE_MINUTES,
         productive_minutes |-> productive_today]

\* a mutant of HasCredits: the credit check is dropped
HasCreditsAlways(credits) == TRUE

\* a mutant of HasCredits: a chest also needs today's two productive hours
HasCreditsAndEligible(credits) ==
    ~(credits <= 0) /\ check_chest_eligibility(activities, today).eligible

\* a mutant of HasCredits: only a negative balance is refused
HasCreditsNotNegative(credits) == ~(credits < 0)

\* not "(user.chest_credits or 0) <= 0"
HasCredits(credits) == ~(credits <= 0)

\* a mutant of GrantItem: an owned item is granted as a fresh row of count 1
GrantItemReset(owned, item) ==
    [i \in (DOMAIN owned) \cup {item} |->
        IF i = item THEN [count |-> 1, is_broken |-> FALSE] ELSE owned[i]]

\* user_item.count += 1, or a new UserItem row with count 1
GrantItem(owned, item) ==
    [i \in (DOMAIN owned) \cup {item} |->
        IF i = item
        THEN IF item \in DOMAIN owned
             THEN [owned[item] EXCEPT !.count = @ + 1]
             ELSE [count |-> 1, is_broken |-> FALSE]
        ELSE owned[i]]

\* a mutant of RefundCredit: the deducted credit is not given back
RefundCreditNone(credits) == credits

\* "user.chest_credits += 1" when no item can be picked
RefundCredit(credits) == credits + 1

\* gamification.open_chest with the drawn rarity and the picked item
open_chest(credits, catalog, owned, rarity, item) ==
    IF ~HasCredits(credits)
    THEN [chest_credits |-> credits, user_items |-> owned,
          result |-> [op |-> "open_chest", error |-> "No keys available"]]
    ELSE IF ChestPool(catalog, rarity) = {}
    THEN [chest_credits |-> RefundCredit(credits - 1), user_items |-> owned,
          result |-> [op |-> "open_chest", error |-> "No items available"]]
    ELSE LET granted == GrantItem(owned, item)
         IN  [chest_credits |-> credits - 1, user_items |-> granted,
              result |-> [op |-> "open_chest", error |-> None, item |-> item,
                          is_new |-> item \notin DOMAIN owned,
                          count |-> granted[item].count, rarity |-> rarity,
                          credits_remaining |-> credits - 1]]

RECURSIVE OwnedTotal(_, _)
\* the sum of the owned counts over the items in S
OwnedTotal(owned, S) ==
    IF S = {} THEN 0
    ELSE LET it == CHOOSE i \in S : TRUE
         IN  owned[it].count + OwnedTotal(owned, S \ {it})

RECURSIVE DecayTier(_, _)
\* the first rarity of RARITY_PRIORITY, from position i on, with an unbroken owned item
DecayTier(owned, i) ==
    IF i > Len(RARITY_PRIORITY) THEN None
    ELSE IF \E it \in DOMAIN owned :
                ~owned[it].is_broken /\ ItemRarity(it) = RARITY_PRIORITY[i]
         THEN RARITY_PRIORITY[i]
         ELSE DecayTier(owned, i + 1)

----------------------------------------------------------------------------
(* Initial state *)

LimitLeisureDaily  == [title |-> <<>>, category |-> "Leisure", target_value |-> 1,
                       timeframe |-> "daily", goal_type |-> "limit"]
TargetCareerDaily  == [title |-> <<>>, category |-> "Career", target_value |-> 1,
                       timeframe |-> "daily", goal_type |-> "target"]
LimitLeisureWeekly == [title |-> <<>>, category |-> "Leisure", target_value |-> 2,
                       timeframe |-> "weekly", goal_type |-> "limit"]
TargetCareerMonthly == [title |-> <<>>, category |-> "Career", target_value |-> 2,
                        timeframe |-> "monthly", goal_type |-> "target"]

TargetCareerWeekly == [title |-> <<>>, category |-> "Career", target_value |-> 2,
                       timeframe |-> "weekly", goal_type |-> "target"]

\* a goal with a title: "Limit Video Games", one hour of Leisure a day at most
LimitVideoGames == [title |-> <<"L", "i", "m", "i", "t", " ", "V", "i", "d", "e", "o", " ", "G", "a", "m", "e", "s">>,
                    category |-> "Leisure", target_value |-> 1,
                    timeframe |-> "daily", goal_type |-> "limit"]

\* the goals the user has created before logging
GoalConfigs ==
    { <<>>,
      <<LimitLeisureDaily, TargetCareerDaily>>,
      <<TargetCareerMonthly, LimitLeisureWeekly>> }

\* a user_items row that belongs to another user, broken
OtherRowId == "Row Of Another User"
OtherUserItems == [r \in {OtherRowId} |-> [count |-> 1, is_broken |-> TRUE]]

\* the rows of a user who has logged nothing (the column defaults of models.User
\* but for the XP and the level) with the given goals created and the given items table
InitRows(goal_configs, catalogs) ==
    /\ today = StartDay
    /\ chest_credits = 0
    /\ productive_minutes = 0
    /\ today_gaming_minutes = GamingStart
    /\ last_gaming_reset = StartDay
    /\ activities = EmptyBag
    /\ goals \in goal_configs
    /\ user_badges = [b \in BADGE_DEFINITIONS |-> 0]
    /\ items \in catalogs
    /\ user_items = <<>>
    /\ other_user_items = OtherUserItems
    /\ result = [op |-> "none"]

\* the state of a new user: no XP, level 1
InitUser(goal_configs, catalogs) ==
    /\ xp = 0
    /\ level = 1
    /\ InitRows(goal_configs, catalogs)

\* that state with no request in flight
InitWith(goal_configs, catalogs) ==
    /\ InitUser(goal_configs, catalogs)
    /\ requests = <<>>

----------------------------------------------------------------------------
(* Requests *)

\* routes/activities.log_activity (app.log_activity is the same code)
log_activity(activity_name, category, duration_minutes, is_focus_session, utc_hour, local_hour, raising) ==
    /\ CountRows(activities, {a \in Rows(activities) : a.day >= 0}) < MaxActivities
    /\ LET productivity_score == calculate_weighted_score(category, duration_minutes,
                                                          is_focus_session)
           activity == [activity_name |-> activity_name,
                        category |-> category, duration_minutes |-> duration_minutes,
                        is_focus_session |-> is_focus_session, day |-> today,
                        hour |-> utc_hour]
           all_activities == activities (+) SetToBag({activity})
           xp_result   == award_xp(xp, level, calculate_xp_gain(productivity_score))
           new_badges  == check_and_award_badges(user_badges, activity, all_activities,
                                                 local_hour, today, raising)
           goal_result == check_goal_status(xp_result.xp, goals, activity, all_activities, today)
           accrual     == AccrueCredits(productive_minutes, chest_credits,
                                        productivity_score, duration_minutes)
       IN  /\ activities' = all_activities
           /\ xp' = goal_result.xp
           /\ level' = xp_result.level
           /\ user_badges' = AddUserBadges(user_badges, new_badges)
           /\ productive_minutes' = accrual.productive_minutes
           /\ chest_credits' = accrual.chest_credits
           /\ result' = [op |-> "log_activity",
                         activity |-> activity,
                         productivity_score |-> productivity_score,
                         xp_awarded |-> xp_result.xp_awarded,
                         total_xp |-> xp_result.total_xp,
                         old_level |-> xp_result.old_level,
                         new_level |-> xp_result.new_level,
                         leveled_up |-> xp_result.leveled_up,
                         new_badges |-> new_badges,
                         local_hour |-> local_hour,
                         errors_logged |-> BadgeErrorsLogged(user_badges, raising),
                         goal_penalties |-> goal_result.penalties,
                         goal_bonuses |-> goal_result.bonuses,
                         credits_earned |-> accrual.credits_earned,
                         total_credits |-> accrual.chest_credits,
                         productive_minutes_progress |-> accrual.productive_minutes]
    /\ UNCHANGED <<today, today_gaming_minutes, last_gaming_reset, goals, items, user_items,
                   other_user_items, requests>>

\* the steps of log_activity after the XP award at which an exception can be raised
FAILING_STEPS == {"badges", "goals", "credits"}

\* routes/activities.log_activity when an exception is raised at failing_step: the
\* handler calls session.rollback(), which undoes what was written since the last
\* session.commit(). award_xp commits the activity row, the XP and the level;
\* check_and_award_badges commits the new badge rows; check_goal_status commits the
\* penalties and bonuses; the credits are only committed by the handler's own commit.
log_activity_fails(activity_name, category, duration_minutes, is_focus_session, utc_hour, local_hour, failing_step) ==
    /\ CountRows(activities, {a \in Rows(activities) : a.day >= 0}) < MaxActivities
    /\ LET productivity_score == calculate_weighted_score(category, duration_minutes,
                                                          is_focus_session)
           activity == [activity_name |-> activity_name,
                        category |-> category, duration_minutes |-> duration_minutes,
                        is_focus_session |-> is_focus_session, day |-> today,
                        hour |-> utc_hour]
           all_activities == activities (+) SetToBag({activity})
           xp_result   == award_xp(xp, level, calculate_xp_gain(productivity_score))
           new_badges  == check_and_award_badges(user_badges, activity, all_activities,
                                                 local_hour, today, {})
           goal_result == check_goal_status(xp_result.xp, goals, activity, all_activities, today)
       IN  /\ activities' = all_activities
           /\ level' = xp_result.level
           /\ user_badges' = IF failing_step = "badges" THEN user_badges
                             ELSE AddUserBadges(user_badges, new_badges)
           /\ xp' = IF failing_step = "credits" THEN goal_result.xp ELSE xp_result.xp
           /\ result' = [op |-> "log_activity_error", failing_step |-> failing_step,
                         activity |-> activity, xp_awarded |-> xp_result.xp_awarded]
    /\ UNCHANGED <<today, chest_credits, productive_minutes, today_gaming_minutes,
                   last_gaming_reset, goals, items, user_items, other_user_items, requests>>

\* routes/gamification.open_loot_chest (on an error the route returns without a
\* commit; open_chest has by then put the user's credits back to what the row holds)
open_loot_chest(rarity, item) ==
    /\ LET pool == ChestPool(items, rarity)
       IN  IF HasCredits(chest_credits) /\ pool # {} THEN item \in pool ELSE item = None
    /\ LET r == open_chest(chest_credits, items, user_items, rarity, item)
       IN  /\ r.result.error = None => OwnedTotal(r.user_items, DOMAIN r.user_items) <= MaxOwned
           /\ chest_credits' = r.chest_credits
           /\ user_items' = r.user_items
           /\ result' = r.result
    /\ UNCHANGED <<today, xp, level, productive_minutes, today_gaming_minutes,
                   last_gaming_reset, activities, goals, user_badges, items,
                   other_user_items, requests>>

\* gamification.check_item_decay
check_item_decay ==
    /\ IF today_gaming_minutes <= DAILY_GAMING_ALLOWANCE \/ DecayTier(user_items, 1) = None
       THEN /\ user_items' = user_items
            /\ result' = [op |-> "check_item_decay", broken |-> FALSE]
       ELSE \E it \in DOMAIN user_items :
              /\ ~user_items[it].is_broken
              /\ ItemRarity(it) = DecayTier(user_items, 1)
              /\ user_items' = [user_items EXCEPT ![it].is_broken = TRUE]
              /\ result' = [op |-> "check_item_decay", broken |-> TRUE, item_name |-> it,
                            rarity |-> ItemRarity(it)]
    /\ UNCHANGED <<today, xp, level, chest_credits, productive_minutes, today_gaming_minutes,
                   last_gaming_reset, activities, goals, user_badges, items,
                   other_user_items, requests>>

\* not "user.chest_credits < REPAIR_COST"
CanAfford(credits) == ~(credits < REPAIR_COST)

\* a mutant of FindUserItem: the row is looked up by its id alone
FindUserItemAnyUser(own, others, user_item_id) ==
    {user_item_id} \cap (DOMAIN own \cup DOMAIN others)

\* the rows matching UserItem.id == user_item_id and UserItem.user_id == user.id
FindUserItem(own, others, user_item_id) ==
    {user_item_id} \cap DOMAIN own

\* a mutant of ClearBroken: every row of the table is repaired
ClearBrokenAll(rows, user_item_id) ==
    IF user_item_id \in DOMAIN rows
    THEN [i \in DOMAIN rows |-> [rows[i] EXCEPT !.is_broken = FALSE]]
    ELSE rows

\* "user_item.is_broken = False" on the row found, in the table that holds it
ClearBroken(rows, user_item_id) ==
    IF user_item_id \in DOMAIN rows
    THEN [rows EXCEPT ![user_item_id].is_broken = FALSE]
    ELSE rows

\* gamification.repair_item through routes/gamification.repair_item_endpoint
repair_item(user_item_id) ==
    /\ LET found == FindUserItem(user_items, other_user_items, user_item_id)
           user_item == IF user_item_id \in DOMAIN user_items
                        THEN user_items[user_item_id]
                        ELSE other_user_items[user_item_id]
       IN  IF found = {}
           THEN /\ result' = [op |-> "repair_item", user_item_id |-> user_item_id,
                              success |-> FALSE, error |-> "Item not found"]
                /\ UNCHANGED <<chest_credits, user_items, other_user_items>>
           ELSE IF ~user_item.is_broken
           THEN /\ result' = [op |-> "repair_item", user_item_id |-> user_item_id,
                              success |-> FALSE, error |-> "Item is not broken"]
                /\ UNCHANGED <<chest_credits, user_items, other_user_items>>
           ELSE IF ~CanAfford(chest_credits)
           THEN /\ result' = [op |-> "repair_item", user_item_id |-> user_item_id,
                              success |-> FALSE, error |-> "Not enough credits"]
                /\ UNCHANGED <<chest_credits, user_items, other_user_items>>
           ELSE /\ chest_credits' = chest_credits - REPAIR_COST
                /\ user_items' = ClearBroken(user_items, user_item_id)
                /\ other_user_items' = ClearBroken(other_user_items, user_item_id)
                /\ result' = [op |-> "repair_item", user_item_id |-> user_item_id,
                              success |-> TRUE, error |-> None,
                              item_name |-> user_item_id,
                              credits_spent |-> REPAIR_COST,
                              remaining_credits |-> chest_credits - REPAIR_COST]
    /\ UNCHANGED <<today, xp, level, productive_minutes, today_gaming_minutes,
                   last_gaming_reset, activities, goals, user_badges, items, requests>>

\* nlp_parser.parse_activity, lines 308-312: the score of the parsed text that waits
\* in requests
score_activity ==
    /\ requests # <<>>
    /\ Head(requests).op = "parse_activity"
    /\ LET parsed == Head(requests)
       IN  result' = [op |-> "parse_activity", category |-> parsed.category,
                      duration_minutes |-> parsed.duration_minutes,
                      is_focus_session |-> parsed.is_focus_session,
                      productivity_score |->
                          calculate_weighted_score(parsed.category, parsed.duration_minutes,
                                                   parsed.is_focus_session)]
    /\ requests' = Tail(requests)
    /\ UNCHANGED <<today, xp, level, chest_credits, productive_minutes, today_gaming_minutes,
                   last_gaming_reset, activities, goals, user_badges, items, user_items,
                   other_user_items>>

\* the level progress of the user's profile: gamification.get_level_progress(user.xp)
level_progress ==
    /\ result' = [op |-> "get_level_progress"] @@ get_level_progress(xp)
    /\ UNCHANGED <<today, xp, level, chest_credits, productive_minutes, today_gaming_minutes,
                   last_gaming_reset, activities, goals, user_badges, items, user_items,
                   other_user_items, requests>>

\* hours_logged = round(total_minutes / 60, 1), in tenths of an hour (no tie occurs
\* for the minutes the specifications reach: total_minutes % 6 is never 3)
HoursLogged(total_minutes) == RoundDiv(total_minutes, 6)

\* a field of the response that is None
NoValue == 0 - 1

\* the days of the month the model runs in
MonthDays == 30

\* total_days of get_goals for the goal's timeframe
GoalTotalDays(goal) ==
    CASE goal.timeframe = "daily"  -> 1
      [] goal.timeframe = "weekly" -> 7
      [] OTHER                     -> MonthDays

\* days_passed of get_goals: 1, max(1, today.weekday() + 1), today.day (day 0 is the 1st)
GoalDaysPassed(goal, now) ==
    CASE goal.timeframe = "daily"  -> 1
      [] goal.timeframe = "weekly" -> Max(1, (now % 7) + 1)
      [] OTHER                     -> now + 1

\* the pacing status of a limit goal, from hours_logged in tenths and the target in hours
LimitPacingStatus(hours_logged, target_value) ==
    IF hours_logged <= 5 * target_value THEN "on_track"
    ELSE IF hours_logged <= 8 * target_value THEN "slightly_behind"
    ELSE IF hours_logged <= 10 * target_value THEN "at_risk"
    ELSE "over_limit"

\* the pacing status of a target goal, from hours_logged and expected_hours in tenths
\* of an hour and progress_percent in tenths of a percent
TargetPacingStatus(hours_logged, expected_hours, progress_percent, days_passed) ==
    IF progress_percent >= 1000 THEN "complete"
    ELSE IF hours_logged >= expected_hours THEN "on_track"
    ELSE IF 10 * hours_logged >= 7 * expected_hours THEN "slightly_behind"
    ELSE IF days_passed < 4 /\ progress_percent < 100 THEN "not_started"
    ELSE IF days_passed >= 4 /\ progress_percent < 500 THEN "at_risk"
    ELSE "slightly_behind"

\* the progress routes/goals.get_goals computes for one goal (tz_offset = 0): hours in
\* tenths of an hour, percentages in tenths of a percent, each rounded as round(_, 1)
GoalProgress(goal, user_activities, now) ==
    LET total_minutes == SumRows(user_activities, GoalActivities(goal, user_activities, now))
        hours_logged  == HoursLogged(total_minutes)
        total_days    == GoalTotalDays(goal)
        days_passed   == GoalDaysPassed(goal, now)
        is_limit_goal == goal.goal_type = "limit"
        progress      == RoundDiv(100 * hours_logged, goal.target_value)
        expected_hours == RoundDiv(10 * goal.target_value * days_passed, total_days)
    IN  IF is_limit_goal
        THEN [total_minutes |-> total_minutes,
              hours_logged |-> hours_logged,
              progress_percent |-> progress,
              expected_hours |-> NoValue,
              expected_percent |-> NoValue,
              budget_remaining |-> Max(0, 10 * goal.target_value - hours_logged),
              days_passed |-> days_passed,
              total_days |-> total_days,
              status |-> LimitPacingStatus(hours_logged, goal.target_value)]
        ELSE [total_minutes |-> total_minutes,
              hours_logged |-> hours_logged,
              progress_percent |-> Min(1000, progress),
              expected_hours |-> expected_hours,
              expected_percent |-> Min(1000, RoundDiv(100 * expected_hours,
                                                      goal.target_value)),
              budget_remaining |-> NoValue,
              days_passed |-> days_passed,
              total_days |-> total_days,
              status |-> TargetPacingStatus(hours_logged, expected_hours,
                                            Min(1000, progress), days_passed)]

\* routes/goals.get_goals: the progress of every goal of the user
get_goals ==
    /\ result' = [op |-> "get_goals",
                  goals |-> [i \in 1..Len(goals) |-> GoalProgress(goals[i], activities, today)]]
    /\ UNCHANGED <<today, xp, level, chest_credits, productive_minutes, today_gaming_minutes,
                   last_gaming_reset, activities, goals, user_badges, items, user_items,
                   other_user_items, requests>>

\* the distinct local dates of the user's activities (tz_offset 0: the UTC dates)
LocalDates(user_activities) == {a.day : a \in Rows(user_activities)}

RECURSIVE SortDates(_)
\* sorted(dates)
SortDates(dates) ==
    IF dates = {} THEN <<>>
    ELSE LET first == CHOOSE d \in dates : \A e \in dates : d <= e
         IN  <<first>> \o SortDates(dates \ {first})

RECURSIVE CurrentStreakFrom(_, _)
\* the days counted back from day d while each of them has an activity
CurrentStreakFrom(dates, d) ==
    IF d \in dates THEN 1 + CurrentStreakFrom(dates, d - 1) ELSE 0

RECURSIVE LongestStreakLoop(_, _, _, _)
\* the pass over the sorted dates from position i on: the run grows when the date
\* follows the one before it by one day and restarts at 1 otherwise
LongestStreakLoop(sorted, i, run, best) ==
    IF i > Len(sorted) THEN best
    ELSE LET next_run == IF sorted[i] = sorted[i - 1] + 1 THEN run + 1 ELSE 1
         IN  LongestStreakLoop(sorted, i + 1, next_run, Max(best, next_run))

\* a mutant of calculate_streak: a day without activity yet does not end the current
\* streak, which is counted back from yesterday
calculate_streak_grace(user_activities, now) ==
    LET dates == LocalDates(user_activities)
    IN  [current_streak |-> IF now \in dates THEN CurrentStreakFrom(dates, now)
                            ELSE CurrentStreakFrom(dates, now - 1),
         longest_streak |-> IF dates = {} THEN 0
                            ELSE LongestStreakLoop(SortDates(dates), 2, 1, 1)]

\* gamification.calculate_streak (Streak Calculator): current and longest streak
calculate_streak(user_activities, now) ==
    LET dates == LocalDates(user_activities)
    IN  [current_streak |-> CurrentStreakFrom(dates, now),
         longest_streak |-> IF dates = {} THEN 0
                            ELSE LongestStreakLoop(SortDates(dates), 2, 1, 1)]

RECURSIVE SumScores(_, _)
\* sum of productivity_score (hundredths) over the rows of bag B that are in set S
SumScores(B, S) ==
    IF S = {} THEN 0
    ELSE LET a == CHOOSE r \in S : TRUE
         IN  CopiesIn(a, B) * calculate_weighted_score(a.category, a.duration_minutes,
                                                       a.is_focus_session)
               + SumScores(B, S \ {a})

\* routes/activities.get_dashboard for today's date (no date argument, tz_offset 0)
get_dashboard ==
    /\ LET day_rows(category) ==
              {a \in Rows(activities) : a.day = today /\ a.category = category}
           level_info == get_level_progress(xp)
       IN  result' = [op |-> "get_dashboard",
                      date |-> today,
                      daily_score |-> SumScores(activities,
                                                {a \in Rows(activities) : a.day = today}),
                      activity_count |-> CountRows(activities,
                                                   {a \in Rows(activities) : a.day = today}),
                      category_breakdown |->
                          [category \in {c \in Categories :
                                            SumRows(activities, day_rows(c)) > 0} |->
                              [minutes |-> SumRows(activities, day_rows(category)),
                               count   |-> CountRows(activities, day_rows(category))]],
                      level |-> level_info.level,
                      xp |-> xp,
                      level_progress |-> level_info,
                      streak |-> calculate_streak(activities, today)]
    /\ UNCHANGED <<today, xp, level, chest_credits, productive_minutes, today_gaming_minutes,
                   last_gaming_reset, activities, goals, user_badges, items, user_items,
                   other_user_items, requests>>

\* app.intervention_heartbeat: one more minute of a distracting application
intervention_heartbeat ==
    /\ today_gaming_minutes < MaxGamingMinutes \/ last_gaming_reset < today
    /\ IF last_gaming_reset < today
       THEN /\ today_gaming_minutes' = 0 + 1
            /\ last_gaming_reset' = today
       ELSE /\ today_gaming_minutes' = today_gaming_minutes + 1
            /\ last_gaming_reset' = last_gaming_reset
    /\ result' = [op |-> "intervention_heartbeat", gaming_minutes |-> today_gaming_minutes']
    /\ UNCHANGED <<today, xp, level, chest_credits, productive_minutes, activities, goals,
                   user_badges, items, user_items, other_user_items, requests>>

\* the clock: datetime.utcnow() passes midnight
NextDay ==
    /\ today < MaxDay
    /\ today' = today + 1
    /\ UNCHANGED <<xp, level, chest_credits, productive_minutes, today_gaming_minutes,
                   last_gaming_reset, activities, goals, user_badges, items, user_items,
          other_user_items, requests, result>>

----------------------------------------------------------------------------
(* Concurrent ingestions: every request runs log_activity in a thread of its own,  *)
(* with a session of its own (Session()), and takes no lock. The variables xp,     *)
(* level, ... hold the committed rows; requests[r].user is the User object of the  *)
(* session of request r. A commit writes the attributes the session has changed,   *)
(* as the values the session holds, and expires the session's objects.             *)

\* the User object as loaded from the committed row
UserRow ==
    [xp |-> xp, level |-> level, productive_minutes |-> productive_minutes,
     chest_credits |-> chest_credits]

\* a request that has not started
IdleRequest ==
    [pc |-> "idle",
     activity |-> [activity_name |-> <<>>, category |-> None, duration_minutes |-> 0,
                   is_focus_session |-> FALSE, day |-> 0, hour |-> 0],
     all_activities |-> EmptyBag,
     user |-> [xp |-> 0, level |-> 1, productive_minutes |-> 0, chest_credits |-> 0],
     badge_rows |-> [b \in BADGE_DEFINITIONS |-> 0],
     expired |-> FALSE]

\* the User object of request r when it is next read: refreshed from the row if expired
Refreshed(r) == IF requests[r].expired THEN UserRow ELSE requests[r].user

\* log_activity, lines 73-96: get_current_user loads the user, the activity is added
\* and flushed (not committed), all_activities is queried in the request's transaction
c_begin(r, activity_name, category, duration_minutes, utc_hour) ==
    /\ requests[r].pc = "idle"
    /\ LET activity == [activity_name |-> activity_name, category |-> category,
                        duration_minutes |-> duration_minutes,
                        is_focus_session |-> FALSE, day |-> today, hour |-> utc_hour]
       IN  requests' = [requests EXCEPT ![r] =
                          [@ EXCEPT !.pc = "flushed",
                                    !.activity = activity,
                                    !.all_activities = activities (+) SetToBag({activity}),
                                    !.user = UserRow,
                                    !.expired = FALSE]]
    /\ UNCHANGED <<today, xp, level, chest_credits, productive_minutes, today_gaming_minutes,
                   last_gaming_reset, activities, goals, user_badges, items, user_items,
                   other_user_items, result>>

\* award_xp: user.xp += xp_amount on the session's object, then session.commit(),
\* which also commits the activity row
c_award_xp(r) ==
    /\ requests[r].pc = "flushed"
    /\ LET req == requests[r]
           productivity_score ==
               calculate_weighted_score(req.activity.category, req.activity.duration_minutes,
                                        req.activity.is_focus_session)
           xp_result == award_xp(req.user.xp, req.user.level,
                                 calculate_xp_gain(productivity_score))
       IN  /\ xp' = IF xp_result.xp # req.user.xp THEN xp_result.xp ELSE xp
           /\ level' = IF xp_result.level # req.user.level THEN xp_result.level ELSE level
           /\ activities' = activities (+) SetToBag({req.activity})
           /\ requests' = [requests EXCEPT ![r] = [@ EXCEPT !.pc = "awarded",
                                                            !.expired = TRUE]]
    /\ UNCHANGED <<today, chest_credits, productive_minutes, today_gaming_minutes,
                   last_gaming_reset, goals, user_badges, items, user_items,
                   other_user_items, result>>

\* check_and_award_badges, line 313: "user.badges" refreshes the expired user and
\* loads the user's badge rows as they are committed now
c_read_badges(r) ==
    /\ requests[r].pc = "awarded"
    /\ requests' = [requests EXCEPT ![r] = [@ EXCEPT !.pc = "badges_read",
                                                     !.user = Refreshed(r),
                                                     !.expired = FALSE,
                                                     !.badge_rows = user_badges]]
    /\ UNCHANGED <<today, xp, level, chest_credits, productive_minutes, today_gaming_minutes,
                   last_gaming_reset, activities, goals, user_badges, items, user_items,
                   other_user_items, result>>

\* check_and_award_badges, lines 315-355: the checks against the rows read, one
\* UserBadge row added per badge met, and session.commit() if any was added
c_award_badges(r) ==
    /\ requests[r].pc = "badges_read"
    /\ LET req == requests[r]
           newly_awarded == check_and_award_badges(req.badge_rows, req.activity,
                                                   req.all_activities, NoHour, today, {})
       IN  /\ user_badges' = AddUserBadges(user_badges, newly_awarded)
           /\ requests' = [requests EXCEPT ![r] =
                              [@ EXCEPT !.pc = "badged",
                                        !.expired = (newly_awarded # <<>>)]]
    /\ UNCHANGED <<today, xp, level, chest_credits, productive_minutes, today_gaming_minutes,
                   last_gaming_reset, activities, goals, items, user_items,
                   other_user_items, result>>

\* check_goal_status: the goal queries see the committed activities; user.xp is
\* changed on the session's object and committed if there is a penalty or a bonus
c_check_goals(r) ==
    /\ requests[r].pc = "badged"
    /\ LET req == requests[r]
           user == Refreshed(r)
           goal_result == check_goal_status(user.xp, goals, req.activity, activities, today)
           committed == goal_result.penalties # <<>> \/ goal_result.bonuses # <<>>
       IN  /\ xp' = IF committed /\ goal_result.xp # user.xp THEN goal_result.xp ELSE xp
           /\ requests' = [requests EXCEPT ![r] =
                              [@ EXCEPT !.pc = "goals_checked",
                                        !.user = [user EXCEPT !.xp = goal_result.xp],
                                        !.expired = committed]]
    /\ UNCHANGED <<today, level, chest_credits, productive_minutes, today_gaming_minutes,
                   last_gaming_reset, activities, goals, user_badges, items, user_items,
                   other_user_items, result>>

\* log_activity, lines 103-121: the credit accrual on the session's object and the
\* final session.commit()
c_accrue_credits(r) ==
    /\ requests[r].pc = "goals_checked"
    /\ LET req == requests[r]
           user == Refreshed(r)
           productivity_score ==
               calculate_weighted_score(req.activity.category, req.activity.duration_minutes,
                                        req.activity.is_focus_session)
           accrual == AccrueCredits(user.productive_minutes, user.chest_credits,
                                    productivity_score, req.activity.duration_minutes)
       IN  /\ productive_minutes' = IF accrual.productive_minutes # user.productive_minutes
                                    THEN accrual.productive_minutes ELSE productive_minutes
           /\ chest_credits' = IF accrual.chest_credits # user.chest_credits
                               THEN accrual.chest_credits ELSE chest_credits
           /\ requests' = [requests EXCEPT ![r] = [@ EXCEPT !.pc = "done",
                                                            !.expired = TRUE]]
           /\ result' = [op |-> "log_activity_concurrent", request |-> r,
                         credits_earned |-> accrual.credits_earned,
                         total_credits |-> accrual.chest_credits,
                         productive_minutes_progress |-> accrual.productive_minutes]
    /\ UNCHANGED <<today, xp, level, today_gaming_minutes, last_gaming_reset, activities,
                   goals, user_badges, items, user_items, other_user_items>>

----------------------------------------------------------------------------
(* Specifications *)

AllItems == UNION ItemCatalogs
NameCoding == <<"C", "o", "d", "i", "n", "g">>
IngestUtcHours == {12}

\* Activity ingestion with goals: XP, level, penalties and bonuses, credit accrual
IngestCategories == {"Career", "Leisure"}
IngestDurations == {0, 40, 90, 250}

Init == InitWith(GoalConfigs, {{}})

Next ==
    \/ \E category \in IngestCategories, duration_minutes \in IngestDurations,
          utc_hour \in IngestUtcHours :
            log_activity(NameCoding, category, duration_minutes, FALSE, utc_hour, NoHour, {})
    \/ NextDay

Spec == Init /\ [][Next]_vars

\* Badge evaluation: hours of the day, a weekend day, check functions that raise
BadgeDurations == {0, 600}
BadgeUtcHours == {2}
BadgeLocalHours == {NoHour, 5, 12}
RaisingSets == {{}, {"Night Owl"}, {"Early Bird"}, {"First Steps"}}

InitBadges == InitWith({<<>>}, {{}})

NextBadges ==
    \/ \E duration_minutes \in BadgeDurations, utc_hour \in BadgeUtcHours,
          local_hour \in BadgeLocalHours, raising \in RaisingSets :
            log_activity(NameCoding, "Health", duration_minutes, FALSE, utc_hour, local_hour,
                         raising)
    \/ NextDay

SpecBadges == InitBadges /\ [][NextBadges]_vars

\* Loot economy: credits from long productive sessions, chests, decay, repair
LootDurations == {120, 600}
LootSessions ==
    {[category |-> "Career", duration_minutes |-> d] : d \in LootDurations}
      \cup {[category |-> "Social", duration_minutes |-> 120]}

InitLoot == InitWith({<<>>}, ItemCatalogs)

NextLoot ==
    \/ \E session \in LootSessions, utc_hour \in IngestUtcHours :
            log_activity(NameCoding, session.category, session.duration_minutes, FALSE,
                         utc_hour, NoHour, {})
    \/ \E position \in 1..Len(RARITY_ORDER), item \in AllItems \cup {None} :
            open_loot_chest(RARITY_ORDER[position], item)
    \/ check_item_decay
    \/ \E user_item_id \in AllItems \cup {OtherRowId} : repair_item(user_item_id)
    \/ intervention_heartbeat

SpecLoot == InitLoot /\ [][NextLoot]_vars

\* Goals with a title: activities whose names match the title, or do not
NameGaming == <<"G", "a", "m", "i", "n", "g">>
NamePlayedGames == <<"P", "l", "a", "y", "e", "d", " ", "g", "a", "m", "e", "s">>
TitleNames == {NameGaming, NamePlayedGames}
TitleDurations == {40, 90}

InitTitles == InitWith({<<LimitVideoGames>>}, {{}})

NextTitles ==
    \/ \E activity_name \in TitleNames, duration_minutes \in TitleDurations,
          utc_hour \in IngestUtcHours :
            log_activity(activity_name, "Leisure", duration_minutes, FALSE, utc_hour,
                         NoHour, {})
    \/ get_goals
    \/ NextDay

SpecTitles == InitTitles /\ [][NextTitles]_vars

\* Ingestions that fail after the XP award
FailureDurations == {40, 90}

InitFailure == InitWith({<<>>, <<LimitLeisureDaily, TargetCareerDaily>>}, {{}})

NextFailure ==
    \/ \E category \in IngestCategories, duration_minutes \in FailureDurations,
          utc_hour \in IngestUtcHours :
            log_activity(NameCoding, category, duration_minutes, FALSE, utc_hour, NoHour, {})
    \/ \E category \in IngestCategories, duration_minutes \in FailureDurations,
          utc_hour \in IngestUtcHours, failing_step \in FAILING_STEPS :
            log_activity_fails(NameCoding, category, duration_minutes, FALSE, utc_hour,
                               NoHour, failing_step)

SpecFailure == InitFailure /\ [][NextFailure]_vars

\* Two ingestions of one new user in two threads
Requests == {1, 2}
ConcurrentDurations == {40, 120}

InitConcurrent ==
    /\ InitUser({<<>>, <<LimitLeisureDaily, TargetCareerDaily>>}, {{}})
    /\ requests = [r \in Requests |-> IdleRequest]

NextConcurrent ==
    \E r \in Requests :
        \/ \E duration_minutes \in ConcurrentDurations, utc_hour \in IngestUtcHours :
                c_begin(r, NameCoding, "Career", duration_minutes, utc_hour)
        \/ c_award_xp(r)
        \/ c_read_badges(r)
        \/ c_award_badges(r)
        \/ c_check_goals(r)
        \/ c_accrue_credits(r)

SpecConcurrent == InitConcurrent /\ [][NextConcurrent]_vars

\* Levels: a user with any XP up to MaxXp, whose level is that of the XP
InitLevel ==
    /\ xp \in 0..MaxXp
    /\ level = calculate_level(xp)
    /\ InitRows({<<>>}, {{}})
    /\ requests = <<>>

NextLevel == level_progress

SpecLevel == InitLevel /\ [][NextLevel]_vars

\* Scores: every category, one that is not a key of BASE_SCORES, every duration > 0
ScoreCategories == Categories \cup {"Unknown"}

InitScore ==
    /\ InitUser({<<>>}, {{}})
    /\ \E category \in ScoreCategories, duration_minutes \in 1..MaxScoreDuration,
          is_focus_session \in BOOLEAN :
            requests = <<[op |-> "parse_activity", category |-> category,
                          duration_minutes |-> duration_minutes,
                          is_focus_session |-> is_focus_session]>>

NextScore == score_activity

SpecScore == InitScore /\ [][NextScore]_vars

\* Cumulative badges: a new user, and a user with a long history logged on an earlier
\* day (Friday of the week before), 90 plain and 8 focus Career activities without
\* duration, who holds First Steps and whose XP, level and credits come from them
HistoryDay == 0 - 3
HistoryPlain == 90
HistoryFocus == 8
HistoryRow(is_focus_session) ==
    [activity_name |-> NameCoding, category |-> "Career", duration_minutes |-> 0,
     is_focus_session |-> is_focus_session, day |-> HistoryDay, hour |-> 12]
History == (HistoryRow(FALSE) :> HistoryPlain) @@ (HistoryRow(TRUE) :> HistoryFocus)
HistoryXp ==
    HistoryPlain * calculate_xp_gain(calculate_weighted_score("Career", 0, FALSE))
      + HistoryFocus * calculate_xp_gain(calculate_weighted_score("Career", 0, TRUE))
HistoryMinutes == (HistoryPlain + HistoryFocus) * DEFAULT_DURATION

CumulativeCategories == {"Career", "Health", "Social"}
CumulativeDurations == {0, 600}

InitVeteran ==
    /\ today = StartDay
    /\ xp = HistoryXp
    /\ level = calculate_level(HistoryXp)
    /\ chest_credits = HistoryMinutes \div KEY_MINUTES
    /\ productive_minutes = HistoryMinutes % KEY_MINUTES
    /\ today_gaming_minutes = GamingStart
    /\ last_gaming_reset = StartDay
    /\ activities = History
    /\ goals = <<>>
    /\ user_badges = [b \in BADGE_DEFINITIONS |-> IF b = "First Steps" THEN 1 ELSE 0]
    /\ items = {}
    /\ user_items = <<>>
    /\ other_user_items = OtherUserItems
    /\ requests = <<>>
    /\ result = [op |-> "none"]

InitCumulative == InitWith({<<>>}, {{}}) \/ InitVeteran

NextCumulative ==
    \E category \in CumulativeCategories, duration_minutes \in CumulativeDurations,
       is_focus_session \in BOOLEAN :
        log_activity(NameCoding, category, duration_minutes, is_focus_session, 12, NoHour, {})

SpecCumulative == InitCumulative /\ [][NextCumulative]_vars

\* Streaks: a user created on a Monday logs on some days of the week and skips others
InitStreak ==
    /\ today = 0
    /\ xp = 0
    /\ level = 1
    /\ chest_credits = 0
    /\ productive_minutes = 0
    /\ today_gaming_minutes = GamingStart
    /\ last_gaming_reset = 0
    /\ activities = EmptyBag
    /\ goals = <<>>
    /\ user_badges = [b \in BADGE_DEFINITIONS |-> 0]
    /\ items = {}
    /\ user_items = <<>>
    /\ other_user_items = OtherUserItems
    /\ requests = <<>>
    /\ result = [op |-> "none"]

NextStreak ==
    \/ log_activity(NameCoding, "Career", 0, FALSE, 12, NoHour, {})
    \/ get_dashboard
    \/ NextDay

SpecStreak == InitStreak /\ [][NextStreak]_vars

\* Goal pacing: limit and target goals of every timeframe, and their progress
PacingGoalConfigs ==
    { <<LimitLeisureDaily, TargetCareerWeekly>>,
      <<TargetCareerDaily, LimitLeisureWeekly>>,
      <<TargetCareerMonthly>> }
PacingDurations == {0, 32, 40}

InitPacing == InitWith(PacingGoalConfigs, {{}})

NextPacing ==
    \/ \E category \in IngestCategories, duration_minutes \in PacingDurations,
          utc_hour \in IngestUtcHours :
            log_activity(NameCoding, category, duration_minutes, FALSE, utc_hour, NoHour, {})
    \/ get_goals
    \/ NextDay

SpecPacing == InitPacing /\ [][NextPacing]_vars

----------------------------------------------------------------------------
(* Properties *)

IsIngestion == activities' # activities

\* the points reported for the goal at position i in a list of penalties or bonuses
RECURSIVE PointsFor(_, _)
PointsFor(entries, i) ==
    IF entries = <<>> THEN 0
    ELSE (IF Head(entries).goal = i THEN Head(entries).points ELSE 0)
         + PointsFor(Tail(entries), i)

RECURSIVE SumPoints(_)
SumPoints(entries) ==
    IF entries = <<>> THEN 0 ELSE Head(entries).points + SumPoints(Tail(entries))

\* C1: after any sequence of ingestions the stored level equals Level(stored XP).
C1_LevelEqualsLevelOfXp ==
    level = calculate_level(xp)

\* C2: XP is never negative, and an ingestion whose penalties (with no bonus in the
\* same ingestion) exceed the XP held after the award leaves XP at exactly 0.
C2_XpNeverNegative ==
    /\ xp >= 0
    /\ (/\ result.op = "log_activity"
        /\ result.goal_bonuses = <<>>
        /\ result.goal_penalties # <<>>
        /\ 0 - SumPoints(result.goal_penalties) >= result.total_xp) => xp = 0

\* an ingestion took XP that was positive after the award down to the floor
C2_Witness ==
    /\ result.op = "log_activity"
    /\ result.goal_bonuses = <<>>
    /\ result.total_xp > 0
    /\ 0 - SumPoints(result.goal_penalties) > result.total_xp
    /\ xp = 0

\* C3: for a limit goal, an ingestion reports -50 exactly when it takes the goal's
\* logged minutes from <= target to > target, -10 exactly when the goal was over its
\* limit before and is after, and no penalty otherwise.
C3_FirstBreachOnce ==
    [][IsIngestion =>
        \A i \in 1..Len(goals) :
            goals[i].goal_type = "limit" =>
                LET before == GoalTotalMinutes(goals[i], activities, today)
                    after  == GoalTotalMinutes(goals[i], activities', today')
                    target == 60 * goals[i].target_value
                IN  PointsFor(result'.goal_penalties, i) =
                        IF after > target
                        THEN IF before <= target THEN 0 - FIRST_BREACH_PENALTY
                             ELSE 0 - CONTINUED_PENALTY
                        ELSE 0]_vars

\* C4: for a target goal, an ingestion reports the +25 bonus exactly when it takes the
\* goal's logged minutes from < target to >= target, and on no other ingestion.
C4_BonusOnce ==
    [][IsIngestion =>
        \A i \in 1..Len(goals) :
            goals[i].goal_type = "target" =>
                LET before == GoalTotalMinutes(goals[i], activities, today)
                    after  == GoalTotalMinutes(goals[i], activities', today')
                    target == 60 * goals[i].target_value
                IN  PointsFor(result'.goal_bonuses, i) =
                        IF before < target /\ after >= target THEN COMPLETION_BONUS ELSE 0]_vars

\* the minutes of the positively scored activities logged so far
ProductiveMinutesLogged ==
    SumRows(activities,
            {a \in Rows(activities) :
                calculate_weighted_score(a.category, a.duration_minutes, a.is_focus_session) > 0})

\* C5: starting from counter 0 and no credits, 120 * credits + counter equals the
\* minutes (30 when absent) of the positively scored activities, however they are
\* split, and each ingestion earns floor(counter / 120) with counter := counter mod 120.
C5_CreditsConserveMinutes ==
    /\ KEY_MINUTES * chest_credits + productive_minutes = ProductiveMinutesLogged
    /\ chest_credits = ProductiveMinutesLogged \div KEY_MINUTES
    /\ productive_minutes = ProductiveMinutesLogged % KEY_MINUTES
    /\ result.op = "log_activity" =>
         LET minutes == IF result.productivity_score > 0
                        THEN DurationOr30(result.activity.duration_minutes) ELSE 0
             counter == ((ProductiveMinutesLogged - minutes) % KEY_MINUTES) + minutes
         IN  /\ result.credits_earned = counter \div KEY_MINUTES
             /\ result.productive_minutes_progress = counter % KEY_MINUTES

\* three 40-minute sessions have earned one credit with no remainder
C5_Witness ==
    /\ BagCardinality(activities) = 3
    /\ \A a \in Rows(activities) : a.category = "Career" /\ a.duration_minutes = 40
    /\ chest_credits = 1
    /\ productive_minutes = 0

\* C6: after every ingestion the productive-minutes counter is in [0, 120).
C6_CounterInRange ==
    productive_minutes >= 0 /\ productive_minutes < KEY_MINUTES

\* an ingestion has taken the counter over 120 (two credits at once) and a remainder is kept
C6_Witness ==
    /\ result.op = "log_activity"
    /\ result.credits_earned = 2
    /\ productive_minutes > 0
    /\ productive_minutes < KEY_MINUTES

\* C7: chest credits are never negative after accruals, chest openings and repairs.
C7_CreditsNeverNegative ==
    chest_credits >= 0

\* a repair has spent the last five credits
C7_Witness ==
    /\ result.op = "repair_item"
    /\ result.success
    /\ chest_credits = 0

\* C8: there is at most one user_badges row per badge of the user.
C8_BadgeEarnedOnce ==
    \A b \in DOMAIN user_badges : user_badges[b] <= 1

\* the last ingestion met the Night Owl predicate again with the badge already owned
C8_Witness ==
    /\ result.op = "log_activity"
    /\ BagCardinality(activities) >= 2
    /\ check_night_owl(result.activity, activities, result.local_hour)
    /\ "Night Owl" \notin SeqToSet(result.new_badges)
    /\ user_badges["Night Owl"] = 1

\* C9: in one evaluation, a badge whose check raised is not awarded, and every other
\* badge not owned before whose predicate is true is awarded and returned.
C9_RaisingCheckSkipped ==
    [][(IsIngestion /\ result'.errors_logged # {}) =>
        LET owned  == existing_badge_ids(user_badges)
            raised == result'.errors_logged
            newly  == SeqToSet(result'.new_badges)
        IN  /\ \A b \in raised : b \notin newly /\ user_badges'[b] = user_badges[b]
            /\ \A b \in BADGE_DEFINITIONS \ (owned \cup raised) :
                 BadgeMet(b, result'.activity, activities', result'.local_hour, today')
                    => (b \in newly /\ user_badges'[b] = 1)]_vars

\* Early Bird raised; Night Owl before it and First Steps after it were awarded
C9_Witness ==
    /\ result.op = "log_activity"
    /\ result.errors_logged = {"Early Bird"}
    /\ {"Night Owl", "First Steps"} \subseteq SeqToSet(result.new_badges)
    /\ user_badges["Early Bird"] = 0

\* C10: open-chest with credits >= 1 and a non-empty catalog succeeds, takes exactly
\* one credit, raises the owned count of exactly one catalog item by one (a new row
\* of count 1 if it was not owned), changes no other owned item, and reports is_new
\* exactly when the item was not owned before.
C10_OpenChestSucceeds ==
    [][(result'.op = "open_chest" /\ chest_credits >= 1 /\ items # {}) =>
        /\ result'.error = None
        /\ chest_credits' = chest_credits - 1
        /\ result'.item \in items
        /\ LET it == result'.item
           IN  /\ DOMAIN user_items' = (DOMAIN user_items) \cup {it}
               /\ \A o \in DOMAIN user_items : o # it => user_items'[o] = user_items[o]
               /\ IF it \in DOMAIN user_items
                  THEN /\ user_items'[it].count = user_items[it].count + 1
                       /\ user_items'[it].is_broken = user_items[it].is_broken
                       /\ result'.is_new = FALSE
                  ELSE /\ user_items'[it].count = 1
                       /\ result'.is_new = TRUE
               /\ result'.count = user_items'[it].count]_vars

\* a chest gave an item the user already owned: its count is now 2
C10_Witness ==
    /\ result.op = "open_chest"
    /\ result.error = None
    /\ result.is_new = FALSE
    /\ result.count = 2
    /\ user_items[result.item].count = 2

\* C11: opening a chest with zero credits returns an error and changes nothing: the
\* credits and every owned item's count and broken flag are as before.
C11_NoCreditsNoChange ==
    [][(result'.op = "open_chest" /\ chest_credits = 0)
        => /\ result'.error = "No keys available"
           /\ chest_credits' = chest_credits
           /\ user_items' = user_items]_vars

\* a chest was refused for lack of credits while the user owned a broken item
C11_Witness ==
    /\ result.op = "open_chest"
    /\ result.error = "No keys available"
    /\ chest_credits = 0
    /\ \E it \in DOMAIN user_items : user_items[it].is_broken

\* C12: opening a chest with at least one credit against an empty catalog returns an
\* error, leaves the credits as they were before the call and creates no owned item.
C12_EmptyCatalogRefunds ==
    [][(result'.op = "open_chest" /\ chest_credits >= 1 /\ items = {})
        => /\ result'.error = "No items available"
           /\ chest_credits' = chest_credits
           /\ user_items' = user_items]_vars

\* a chest was paid for and refunded because the catalog is empty
C12_Witness ==
    /\ result.op = "open_chest"
    /\ result.error = "No items available"
    /\ items = {}
    /\ chest_credits >= 1
    /\ user_items = <<>>

\* the position of a rarity in Common < Rare < Legendary < Mythic
TierRank(rarity) == CHOOSE i \in 1..Len(RARITY_ORDER) : RARITY_ORDER[i] = rarity

C14_RepairExactlyOne ==
    [][(/\ result'.op = "repair_item"
        /\ result'.user_item_id \in DOMAIN user_items
        /\ user_items[result'.user_item_id].is_broken
        /\ chest_credits >= 5)
        => /\ result'.success
           /\ chest_credits' = chest_credits - 5
           /\ DOMAIN user_items' = DOMAIN user_items
           /\ \A it \in DOMAIN user_items :
                 /\ user_items'[it].count = user_items[it].count
                 /\ user_items'[it].is_broken =
                        (it # result'.user_item_id /\ user_items[it].is_broken)
           /\ other_user_items' = other_user_items]_vars

\* an item was repaired while another owned item stayed broken
C14_Witness ==
    /\ result.op = "repair_item"
    /\ result.success
    /\ ~user_items[result.user_item_id].is_broken
    /\ \E it \in DOMAIN user_items : it # result.user_item_id /\ user_items[it].is_broken

\* C15: a repair fails with an error and changes neither the credits nor any broken
\* flag when the id is not a row of the calling user (a row of another user
\* included), when the item is not broken, or when there are fewer than 5 credits.
C15_RepairFailsNoChange ==
    [][(/\ result'.op = "repair_item"
        /\ \/ result'.user_item_id \notin DOMAIN user_items
           \/ ~user_items[result'.user_item_id].is_broken
           \/ chest_credits < 5)
        => /\ ~result'.success
           /\ result'.error # None
           /\ chest_credits' = chest_credits
           /\ user_items' = user_items
           /\ other_user_items' = other_user_items]_vars

\* a user with 5 credits or more asked to repair the broken row of another user
C15_Witness ==
    /\ result.op = "repair_item"
    /\ ~result.success
    /\ result.user_item_id = OtherRowId
    /\ result.error = "Item not found"
    /\ chest_credits >= 5
    /\ other_user_items[OtherRowId].is_broken

\* C16: with a non-empty catalog, opening a chest succeeds with one credit or more
\* even when today's Career and Health minutes are below 120, and fails with zero
\* credits even when they are 120 or more.
C16_ChestIgnoresEligibility ==
    [][(result'.op = "open_chest" /\ items # {})
        => LET eligible == check_chest_eligibility(activities, today).eligible
           IN  /\ (chest_credits >= 1 /\ ~eligible) => result'.error = None
               /\ (chest_credits = 0 /\ eligible) => result'.error # None]_vars

\* a chest was opened on a day with fewer than 120 Career and Health minutes
C16_Witness ==
    /\ result.op = "open_chest"
    /\ result.error = None
    /\ ~check_chest_eligibility(activities, today).eligible

\* the minutes of all the activities of the goal's category since the goal's start date
CategoryWindowMinutes(goal) ==
    SumRows(activities, {a \in Rows(activities) :
                            a.category = goal.category /\ a.day >= GoalStartDate(goal, today)})

\* the goal has a title and no activity of its category in the window matches it
TitleMatchesNothing(goal) ==
    /\ goal.title # <<>>
    /\ \A a \in Rows(activities) :
          (a.category = goal.category /\ a.day >= GoalStartDate(goal, today))
            => ~TitleMatches(StripPrefix(Lower(goal.title), 1), a.activity_name)

\* C17: for a goal whose title matches no activity name in the window, the minutes
\* logged for the goal are those of all the activities of the goal's category, in the
\* goal progress of get_goals and in the goal check of an ingestion.
C17_UnmatchedTitleFallsBack ==
    \A i \in 1..Len(goals) :
        TitleMatchesNothing(goals[i])
          => /\ result.op = "get_goals"
                   => result.goals[i].total_minutes = CategoryWindowMinutes(goals[i])
             /\ result.op = "log_activity"
                   => GoalTotalMinutes(goals[i], activities, today)
                        = CategoryWindowMinutes(goals[i])

\* C18: an ingestion that fails at a step after the XP award (badge evaluation, goal
\* check, credit accrual) leaves the activity rows, the XP, the level, the badges, the
\* productive-minutes counter and the credits exactly as they were before it.
C18_FailedIngestionChangesNothing ==
    [][result'.op = "log_activity_error"
        => UNCHANGED <<activities, xp, level, user_badges, productive_minutes,
                       chest_credits>>]_vars

\* log_activity run alone on the state st = [xp, level, productive_minutes,
\* chest_credits, user_badges, activities], for the activity of a request
IngestAlone(st, activity) ==
    LET productivity_score == calculate_weighted_score(activity.category,
                                                       activity.duration_minutes,
                                                       activity.is_focus_session)
        all_activities == st.activities (+) SetToBag({activity})
        xp_result   == award_xp(st.xp, st.level, calculate_xp_gain(productivity_score))
        new_badges  == check_and_award_badges(st.user_badges, activity, all_activities,
                                              NoHour, today, {})
        goal_result == check_goal_status(xp_result.xp, goals, activity, all_activities, today)
        accrual     == AccrueCredits(st.productive_minutes, st.chest_credits,
                                     productivity_score, activity.duration_minutes)
    IN  [xp |-> goal_result.xp, level |-> xp_result.level,
         productive_minutes |-> accrual.productive_minutes,
         chest_credits |-> accrual.chest_credits,
         user_badges |-> AddUserBadges(st.user_badges, new_badges),
         activities |-> all_activities]

\* the state the two requests started from: a new user
NewUser ==
    [xp |-> 0, level |-> 1, productive_minutes |-> 0, chest_credits |-> 0,
     user_badges |-> [b \in BADGE_DEFINITIONS |-> 0], activities |-> EmptyBag]

\* the outcome of request first run to its end, then request second
SequentialOutcome(first, second) ==
    IngestAlone(IngestAlone(NewUser, requests[first].activity), requests[second].activity)

SameOutcome(st) ==
    /\ xp = st.xp
    /\ productive_minutes = st.productive_minutes
    /\ chest_credits = st.chest_credits
    /\ user_badges = st.user_badges

\* C19: when two concurrent ingestions of one user have both finished, the XP, the
\* productive-minutes counter, the credits and the badge rows are those of one of the
\* two sequential orders of the two requests.
C19_RequestsSerialized ==
    (DOMAIN requests = Requests /\ \A r \in Requests : requests[r].pc = "done")
      => \/ SameOutcome(SequentialOutcome(1, 2))
         \/ SameOutcome(SequentialOutcome(2, 1))

\* C20: the level does not decrease when the XP grows, and for every level L >= 1 up
\* to the one after the user's, Level(xp_for_level(L)) = L and, for L >= 2,
\* Level(xp_for_level(L) - 1) = L - 1.
C20_LevelInvertsThreshold ==
    /\ \A y \in 0..xp : calculate_level(y) <= calculate_level(xp)
    /\ \A L \in 1..(calculate_level(xp) + 1) :
          /\ calculate_level(xp_for_level(L)) = L
          /\ L >= 2 => calculate_level(xp_for_level(L) - 1) = L - 1

\* the progress of a user whose XP is exactly the threshold of level 3 was computed
C20_Witness ==
    /\ result.op = "get_level_progress"
    /\ result.level = 3
    /\ result.xp_in_level = 0
    /\ xp = xp_for_level(3)
    /\ calculate_level(xp - 1) = 2

\* the sign of an integer
Sign(n) == IF n > 0 THEN 1 ELSE IF n < 0 THEN 0 - 1 ELSE 0

\* C21: for every category and every duration > 0, with or without the focus flag, the
\* rounded score is strictly positive for Career, Health, Social and Chores, strictly
\* negative for Leisure, and 0 for an unknown category.
C21_ScoreSignIsWeightSign ==
    (result.op = "parse_activity" /\ result.duration_minutes > 0)
      => /\ result.category \in {"Career", "Health", "Social", "Chores"}
               => result.productivity_score > 0
         /\ result.category = "Leisure" => result.productivity_score < 0
         /\ result.category \notin Categories => result.productivity_score = 0
         /\ Sign(result.productivity_score) = Sign(BASE_SCORES(result.category))

\* one minute of Chores, the smallest positive weight, was scored above zero
C21_Witness ==
    /\ result.op = "parse_activity"
    /\ result.category = "Chores"
    /\ result.duration_minutes = 1
    /\ result.productivity_score > 0

\* the status the limit rule gives for the matched minutes themselves: hours = minutes / 60
\* against 0.5 * target, 0.8 * target and target
LimitStatusOfMinutes(minutes, target_value) ==
    IF 10 * minutes <= 5 * 60 * target_value THEN "on_track"
    ELSE IF 10 * minutes <= 8 * 60 * target_value THEN "slightly_behind"
    ELSE IF minutes <= 60 * target_value THEN "at_risk"
    ELSE "over_limit"

\* C22: for a limit goal, the reported status is on_track iff hours <= 0.5 * target,
\* slightly_behind iff 0.5 * target < hours <= 0.8 * target, at_risk iff
\* 0.8 * target < hours <= target and over_limit iff hours > target, with
\* hours = (sum of the matched minutes) / 60; so it is over_limit exactly when the
\* breach condition of the ingestion check holds for the same activities.
C22_LimitStatusOfHours ==
    [][(result' # result /\ result'.op = "get_goals")
        => \A i \in 1..Len(goals) :
              goals[i].goal_type = "limit"
                => /\ result'.goals[i].status
                        = LimitStatusOfMinutes(GoalTotalMinutes(goals[i], activities, today),
                                               goals[i].target_value)
                   /\ result'.goals[i].status = "over_limit"
                        <=> GoalTotalMinutes(goals[i], activities, today)
                              > 60 * goals[i].target_value]_vars

\* the status the ordered decision list gives for the matched minutes themselves, with
\* hours = minutes / 60, expectedHours = target * days_passed / total_days and
\* progress = min(100, hours / target * 100)
TargetStatusOfMinutes(minutes, target_value, days_passed, total_days) ==
    IF minutes >= 60 * target_value THEN "complete"
    ELSE IF minutes * total_days >= 60 * target_value * days_passed THEN "on_track"
    ELSE IF 10 * minutes * total_days >= 7 * 60 * target_value * days_passed
         THEN "slightly_behind"
    ELSE IF days_passed < 4 /\ 100 * minutes < 10 * 60 * target_value THEN "not_started"
    ELSE IF days_passed >= 4 /\ 100 * minutes < 50 * 60 * target_value THEN "at_risk"
    ELSE "slightly_behind"

\* C23: for a target goal, the reported status is the one the ordered decision list
\* gives (complete, on_track, slightly_behind, not_started, at_risk, slightly_behind)
\* with expectedHours = target * (daysPassed / totalDays), and it is one status.
C23_TargetStatusOfDecisionList ==
    [][(result' # result /\ result'.op = "get_goals")
        => \A i \in 1..Len(goals) :
              goals[i].goal_type = "target"
                => /\ result'.goals[i].status
                        \in {"complete", "on_track", "slightly_behind", "not_started",
                             "at_risk"}
                   /\ result'.goals[i].status
                        = TargetStatusOfMinutes(GoalTotalMinutes(goals[i], activities, today),
                                                goals[i].target_value,
                                                GoalDaysPassed(goals[i], today),
                                                GoalTotalDays(goals[i]))]_vars

\* the penalties and the bonuses one ingestion reports, in one list
ReportedEntries == result.goal_penalties \o result.goal_bonuses

\* C24: in one ingestion every goal of the user contributes at most one entry to the
\* reported penalties and bonuses together (never a penalty and a bonus, never two
\* penalties), and there are at most as many entries as the user has goals.
C24_OneEntryPerGoal ==
    result.op = "log_activity"
      => /\ \A j, k \in 1..Len(ReportedEntries) :
               ReportedEntries[j].goal = ReportedEntries[k].goal => j = k
         /\ Len(ReportedEntries) <= Len(goals)

\* an ingestion where one goal gave a penalty and another goal a bonus
C24_Witness ==
    /\ result.op = "log_activity"
    /\ Len(result.goal_penalties) = 1
    /\ Len(result.goal_bonuses) = 1
    /\ Len(goals) = 2

\* the cumulative threshold of a badge holds for the activity rows B
ThresholdHolds(badge_name, B) ==
    CASE badge_name = "Centurion"        -> BagCardinality(B) >= 100
      [] badge_name = "Focused Mind"     ->
            CountRows(B, {a \in Rows(B) : a.is_focus_session}) >= 10
      [] badge_name = "Career Champion"  ->
            SumRows(B, {a \in Rows(B) : a.category = "Career"}) >= 3000
      [] badge_name = "Health Hero"      ->
            SumRows(B, {a \in Rows(B) : a.category = "Health"}) >= 1800
      [] badge_name = "Social Butterfly" ->
            SumRows(B, {a \in Rows(B) : a.category = "Social"}) >= 1200

CumulativeBadges ==
    {"Centurion", "Focused Mind", "Career Champion", "Health Hero", "Social Butterfly"}

\* the badge is among the newly earned badges the result reports
Reported(badge_name, r) == \E i \in 1..Len(r.new_badges) : r.new_badges[i] = badge_name

\* C25: with no deletions, an ingestion awards a cumulative-threshold badge (Centurion
\* at 100 activities, Focused Mind at 10 focus activities, Career Champion, Health Hero,
\* Social Butterfly at 3000, 1800, 1200 minutes of the category, 30 for an activity
\* without duration) exactly when the threshold holds after it and did not hold before
\* it, the badge is held exactly when its threshold holds, and it stays; First Steps
\* is awarded at the ingestion after which the activity count is exactly 1.
C25_CumulativeBadgeAtFirstCrossing ==
    [][result'.op = "log_activity" /\ activities' # activities
        => /\ \A b \in CumulativeBadges :
                /\ Reported(b, result')
                      <=> (ThresholdHolds(b, activities') /\ ~ThresholdHolds(b, activities))
                /\ user_badges'[b] = (IF ThresholdHolds(b, activities') THEN 1 ELSE 0)
                /\ user_badges'[b] >= user_badges[b]
           /\ Reported("First Steps", result') <=> BagCardinality(activities') = 1
           /\ user_badges'["First Steps"] = 1]_vars

\* the hundredth activity has just been ingested and Centurion is reported and held
C25_Witness ==
    /\ result.op = "log_activity"
    /\ BagCardinality(activities) = 100
    /\ Reported("Centurion", result)
    /\ user_badges["Centurion"] = 1

\* every day from a to b has an activity
IsRun(dates, a, b) == \A d \in a..b : d \in dates

\* C26: for the set of distinct local activity dates and the date the dashboard is asked
\* for, the current streak is the length of the maximal run of consecutive dates that
\* ends at that date (0 when the date has no activity), the longest streak is the
\* greatest length of a run of consecutive dates in the set, and the longest streak is
\* at least the current streak.
C26_StreaksAreMaximalRuns ==
    result.op = "get_dashboard"
      => LET dates   == LocalDates(activities)
             current == result.streak.current_streak
             longest == result.streak.longest_streak
         IN  /\ (result.date \notin dates) => current = 0
             /\ (result.date \in dates)
                   => /\ current >= 1
                      /\ IsRun(dates, result.date - current + 1, result.date)
                      /\ (result.date - current) \notin dates
             /\ dates = {} => longest = 0
             /\ dates # {}
                   => /\ \E a, b \in dates : IsRun(dates, a, b) /\ b - a + 1 = longest
                      /\ \A a, b \in dates : IsRun(dates, a, b) => b - a + 1 <= longest
             /\ longest >= current

\* two days in a row, a day without activity, then a day with one: the dashboard of
\* that day reports a current streak of 1 and a longest streak of 2
C26_Witness ==
    /\ result.op = "get_dashboard"
    /\ result.date = today
    /\ result.streak.current_streak = 1
    /\ result.streak.longest_streak = 2

\* C27: the total XP and the new level that the result of an ingestion reports are the
\* stored XP and Level(stored XP) once the ingestion has completed, also when the same
\* ingestion applied goal penalties or bonuses.
C27_ReportedXpIsStoredXp ==
    result.op = "log_activity"
      => /\ result.total_xp = xp
         /\ result.new_level = calculate_level(xp)

\* C28: an ingested activity that a goal does not match (another category, or a name
\* that does not match the goal's title) brings no penalty and no bonus for that goal,
\* whatever the minutes logged for the goal.
C28_UnmatchedActivityNoPoints ==
    [][IsIngestion =>
        \A i \in 1..Len(goals) :
            (GoalTotalMinutes(goals[i], activities', today')
                = GoalTotalMinutes(goals[i], activities, today))
              => /\ PointsFor(result'.goal_penalties, i) = 0
                 /\ PointsFor(result'.goal_bonuses, i) = 0]_vars

\* C29: in every successful open-chest result the reported rarity is the rarity tier of
\* the awarded item, also when the drawn tier has no item in the catalog and the item
\* was picked from the whole catalog.
C29_ReportedRarityIsItemRarity ==
    (result.op = "open_chest" /\ result.error = None)
      => result.rarity = ItemRarity(result.item)

\* C30: over any sequence of ingestions the stored level never decreases from one
\* ingestion to the next, also when limit-goal penalties have taken the XP below the
\* threshold of the stored level.
C30_LevelNeverDecreases ==
    [][level' >= level]_vars

\* an ingestion has run on a stored level whose threshold the XP had fallen below, and
\* the level is still held
C30_Witness ==
    /\ result.op = "log_activity"
    /\ result.old_level >= 2
    /\ result.total_xp < xp_for_level(result.old_level)
    /\ level = result.old_level

====
